---------------------------- MODULE Spec2Model ----------------------------
(***************************************************************************)
(* RSA-OAEP password encryption of sqlx-core's MySQL driver                *)
(* (sqlx-core/src/mysql/rsa.rs): the PEM/PKCS#8 public key parser, the     *)
(* MGF1 mask generator with its 4-byte counter, the OAEP encoder, the      *)
(* modular exponentiation with its left-padded output, and the encrypt     *)
(* entry point.                                                            *)
(*                                                                         *)
(* Bytes are the integers 0..255, byte strings and texts are sequences of  *)
(* bytes (a text is its UTF-8 encoding), and a BigUint is the big-endian   *)
(* byte sequence of its value without leading zero bytes (zero is <<>>),   *)
(* so that moduli wider than a machine integer are computed exactly.       *)
(***************************************************************************)
EXTENDS Integers, Sequences, FiniteSets, TLC

VARIABLES
    key,            \* encrypt's key argument: the raw key bytes
    message,        \* encrypt's message argument
    h_size,         \* D::output_size() of the digest type parameter D
    overflowChecks, \* build profile: TRUE panics on usize overflow, FALSE wraps
    pc,             \* position inside encrypt / parse / oaep_encrypt
    calls,          \* the components invoked so far, in order
    pub_key,        \* the PublicKey returned by parse
    em,             \* oaep_encrypt's buffer em
    seed0,          \* the bytes rng.fill wrote into the seed
    digest,         \* the digest's absorbed, not yet finalized input
    m_int,          \* oaep_encrypt's m = BigUint::from_bytes_be(&em)
    c_bytes,        \* oaep_encrypt's c = internals_encrypt(..).to_bytes_be()
    result,         \* what encrypt returned (or the panic that ended it)
    ctr,            \* counter specification: input and output of one increment
    mgf             \* MGF1 specification: the loop state of oeap_mgf1_xor

vars == <<key, message, h_size, overflowChecks, pc, calls, pub_key, em, seed0,
          digest, m_int, c_bytes, result, ctr, mgf>>

-----------------------------------------------------------------------------
(* Bounds of the model *)

\* longest message drawn
MaxMsgLen == 2
\* largest digest output size drawn
MaxDigestSize == 2
\* longest buffer handed to oeap_mgf1_xor in the MGF1 specification
MaxMgfLen == 5

-----------------------------------------------------------------------------
(* Program constants *)

\* u8::max_value()
U8Max == 255
\* length of the counter, vec![0u8; 4]
CounterLen == 4
\* parse: the modulus is the 257 bytes before the trailer
NBytesLen == 257
\* parse: the trailer after the modulus is 5 bytes
TrailerLen == 5
\* parse: the exponent is the last 3 bytes
EBytesLen == 3
\* Stands for the usize modulus 2^64 (2^32 on 32-bit targets), which is beyond
\* TLC's integers: a wrapped difference is only ever compared with, or used
\* as an index into, buffers far shorter than this.
UsizeModulus == 1073741824

-----------------------------------------------------------------------------
(* Sequences of bytes *)

Byte == 0..U8Max

Min(a, b) == IF a < b THEN a ELSE b
Max(a, b) == IF a > b THEN a ELSE b

Zeros(n) == [i \in 1..n |-> 0]

\* s[from..to) with 0-based bounds, as a Rust slice
Slice(s, from, to) == [i \in 1..(to - from) |-> s[from + i]]

StartsWith(s, p) == Len(p) <= Len(s) /\ \A i \in 1..Len(p) : s[i] = p[i]

\* the least element of a non-empty set of integers
MinOf(S) == CHOOSE x \in S : \A y \in S : x <= y

\* 0-based position of the first occurrence of byte b, or -1
Find(s, b) ==
    LET P == {i \in 1..Len(s) : s[i] = b}
    IN  IF P = {} THEN -1 ELSE MinOf(P) - 1

RECURSIVE BitXor(_, _)
BitXor(a, b) ==
    IF a = 0 THEN b
    ELSE IF b = 0 THEN a
    ELSE 2 * BitXor(a \div 2, b \div 2) + ((a + b) % 2)

-----------------------------------------------------------------------------
(* num_bigint::BigUint *)

\* s without its leading zero bytes
StripZeros(s) ==
    LET P == {i \in 1..Len(s) : s[i] # 0}
    IN  IF P = {} THEN <<>> ELSE Slice(s, MinOf(P) - 1, Len(s))

\* BigUint::from_bytes_be
from_bytes_be(bytes) == StripZeros(bytes)

\* BigUint::to_bytes_be: zero is the single byte 0
to_bytes_be(x) == IF x = <<>> THEN <<0>> ELSE x

RECURSIVE BitLen(_)
BitLen(b) == IF b = 0 THEN 0 ELSE 1 + BitLen(b \div 2)

\* BigUint::bits
bits(x) == IF x = <<>> THEN 0 ELSE 8 * (Len(x) - 1) + BitLen(x[1])

PadLeft(s, n) == Zeros(n - Len(s)) \o s

\* -1, 0, 1 as a < b, a = b, a > b
RECURSIVE CmpSameLen(_, _, _)
CmpSameLen(a, b, i) ==
    IF i > Len(a) THEN 0
    ELSE IF a[i] < b[i] THEN -1
    ELSE IF a[i] > b[i] THEN 1
    ELSE CmpSameLen(a, b, i + 1)

BigCmp(a, b) ==
    IF Len(a) < Len(b) THEN -1
    ELSE IF Len(a) > Len(b) THEN 1
    ELSE CmpSameLen(a, b, 1)

BigAdd(a, b) ==
    LET L == Max(Len(a), Len(b)) + 1
        A == PadLeft(a, L)
        B == PadLeft(b, L)
        carry[i \in 1..(L + 1)] ==
            IF i = L + 1 THEN 0 ELSE (A[i] + B[i] + carry[i + 1]) \div 256
    IN  StripZeros([i \in 1..L |-> (A[i] + B[i] + carry[i + 1]) % 256])

\* a - b for a >= b
BigSub(a, b) ==
    LET L == Len(a)
        B == PadLeft(b, L)
        borrow[i \in 1..(L + 1)] ==
            IF i = L + 1 THEN 0
            ELSE IF a[i] - B[i] - borrow[i + 1] < 0 THEN 1 ELSE 0
    IN  StripZeros([i \in 1..L |-> (a[i] - B[i] - borrow[i + 1] + 256) % 256])

\* x for x < 2n, reduced below n
ReduceOnce(x, n) == IF BigCmp(x, n) >= 0 THEN BigSub(x, n) ELSE x

\* the bits of x, most significant first
BitsOfByte(b) == [i \in 1..8 |-> (b \div (2 ^ (8 - i))) % 2]

RECURSIVE BigBits(_)
BigBits(x) == IF x = <<>> THEN <<>> ELSE BitsOfByte(x[1]) \o BigBits(Tail(x))

\* The loops below test Len(s) >= 0, which always holds, before they recurse:
\* TLC evaluates operands on demand, and the test computes s at once
\* instead of building a chain of pending operands as long as the loop.

\* (2 * r + a * bit) mod n, for r < n and a < n
RECURSIVE MulModLoop(_, _, _, _, _)
MulModLoop(r, a, bs, i, n) ==
    IF i > Len(bs) THEN r
    ELSE LET d == ReduceOnce(BigAdd(r, r), n)
             s == IF bs[i] = 1 THEN ReduceOnce(BigAdd(d, a), n) ELSE d
         IN  IF Len(s) >= 0 THEN MulModLoop(s, a, bs, i + 1, n) ELSE <<>>

\* x mod n, for n > 0
RECURSIVE BigModLoop(_, _, _, _)
BigModLoop(r, bs, i, n) ==
    IF i > Len(bs) THEN r
    ELSE LET d == ReduceOnce(BigAdd(r, r), n)
             s == IF bs[i] = 1 THEN ReduceOnce(BigAdd(d, <<1>>), n) ELSE d
         IN  IF Len(s) >= 0 THEN BigModLoop(s, bs, i + 1, n) ELSE <<>>

BigMod(x, n) == BigModLoop(<<>>, BigBits(x), 1, n)

\* a * b mod n, for a < n and n > 0
MulMod(a, b, n) == MulModLoop(<<>>, a, BigBits(b), 1, n)

RECURSIVE ModPowLoop(_, _, _, _, _)
ModPowLoop(r, base, es, i, n) ==
    IF i > Len(es) THEN r
    ELSE LET sq == MulMod(r, r, n)
             s  == IF es[i] = 1 THEN MulMod(sq, base, n) ELSE sq
         IN  IF Len(s) >= 0 THEN ModPowLoop(s, base, es, i + 1, n) ELSE <<>>

\* BigUint::modpow, for a modulus n > 0 (a zero modulus panics)
modpow(m, e, n) == ModPowLoop(BigMod(<<1>>, n), BigMod(m, n), BigBits(e), 1, n)


-----------------------------------------------------------------------------
(* digest::Digest *)

\* The digest algorithm D is a parameter of the code.  The model draws it from
\* a family of fixed deterministic functions, one for each output size h: a
\* polynomial checksum of the absorbed bytes, spread over h output bytes.
RECURSIVE HashAcc(_, _, _)
HashAcc(data, i, acc) ==
    IF i > Len(data) THEN acc
    ELSE HashAcc(data, i + 1, (acc * 33 + data[i] + 1) % 65521)

Hash(h, data) ==
    LET a == HashAcc(data, 1, 5381)
    IN  [j \in 1..h |-> ((a + 7919 * j) * 193 + 31 * Len(data)) % 256]

\* D::new(): nothing absorbed
DigestNew == <<>>

\* Digest::input: absorbs bytes after what is already absorbed
DigestInput(d, bytes) == d \o bytes

\* Digest::result_reset: the digest of what was absorbed, and a reset state
DigestResultReset(d, h) == [output |-> Hash(h, d), digest |-> DigestNew]

-----------------------------------------------------------------------------
(* internals_inc_counter *)

\* as internals_inc_counter with the carry out of counter[1] dropped: the
\* high byte is never incremented
IncCounterCarryDropped(counter) ==
    IF counter[4] # U8Max
    THEN [counter EXCEPT ![4] = counter[4] + 1]
    ELSE IF counter[3] # U8Max
    THEN [counter EXCEPT ![4] = 0, ![3] = counter[3] + 1]
    ELSE IF counter[2] # U8Max
    THEN [counter EXCEPT ![4] = 0, ![3] = 0, ![2] = counter[2] + 1]
    ELSE [counter EXCEPT ![4] = 0, ![3] = 0, ![2] = 0]

\* counter[0..3] of the code are counter[1..4] here
internals_inc_counter(counter) ==
    IF counter[4] # U8Max
    THEN [counter EXCEPT ![4] = counter[4] + 1]
    ELSE IF counter[3] # U8Max
    THEN [counter EXCEPT ![4] = 0, ![3] = counter[3] + 1]
    ELSE IF counter[2] # U8Max
    THEN [counter EXCEPT ![4] = 0, ![3] = 0, ![2] = counter[2] + 1]
    ELSE IF counter[1] = U8Max
    THEN [counter EXCEPT ![4] = 0, ![3] = 0, ![2] = 0, ![1] = 0]
    ELSE [counter EXCEPT ![4] = 0, ![3] = 0, ![2] = 0, ![1] = counter[1] + 1]

-----------------------------------------------------------------------------
(* oeap_mgf1_xor *)

\* the inner loop: out[i] ^= digest_output[j] while both cursors are in range
RECURSIVE Mgf1Inner(_, _, _, _)
Mgf1Inner(out, digest_output, i, j) ==
    IF j >= Len(digest_output) \/ i >= Len(out)
    THEN [out |-> out, i |-> i]
    ELSE Mgf1Inner([out EXCEPT ![i + 1] = BitXor(out[i + 1], digest_output[j + 1])],
                   digest_output, i + 1, j + 1)

\* the loop state at entry: counter = vec![0u8; 4], i = 0
Mgf1Start(out, dg) ==
    [out |-> out, i |-> 0, counter |-> Zeros(CounterLen), digest |-> dg, iters |-> 0]

\* as Mgf1Iteration with the digest finalized but not reset: what one
\* iteration absorbed stays absorbed in the next
Mgf1IterationNoReset(st, seed, h) ==
    LET digest_input == seed \o st.counter
        absorbed == DigestInput(st.digest, digest_input)
        inner == Mgf1Inner(st.out, Hash(h, absorbed), st.i, 0)
    IN  [out     |-> inner.out,
         i       |-> inner.i,
         counter |-> internals_inc_counter(st.counter),
         digest  |-> absorbed,
         iters   |-> st.iters + 1]

\* one iteration of the while loop; iters counts the iterations made
Mgf1Iteration(st, seed, h) ==
    LET digest_input == seed \o st.counter
        fin   == DigestResultReset(DigestInput(st.digest, digest_input), h)
        inner == Mgf1Inner(st.out, fin.output, st.i, 0)
    IN  [out     |-> inner.out,
         i       |-> inner.i,
         counter |-> internals_inc_counter(st.counter),
         digest  |-> fin.digest,
         iters   |-> st.iters + 1]

RECURSIVE Mgf1Loop(_, _, _)
Mgf1Loop(st, seed, h) ==
    IF st.i < Len(st.out) THEN Mgf1Loop(Mgf1Iteration(st, seed, h), seed, h) ELSE st

\* oeap_mgf1_xor(out, digest, seed): the final loop state, whose out and digest
\* are what the caller's buffer and digest hold on return
oeap_mgf1_xor(out, dg, seed, h) == Mgf1Loop(Mgf1Start(out, dg), seed, h)

-----------------------------------------------------------------------------
(* Texts: std::str and base64 *)

Newline == 10
Dash == 45
Header == <<45, 45, 45, 45, 45, 66, 69, 71, 73, 78, 32, 80, 85, 66, 76, 73, 67,
            32, 75, 69, 89, 45, 45, 45, 45, 45, 10>>

IsCont(b) == b >= 128 /\ b <= 191

\* the number of continuation bytes the leading byte b asks for; 0 for an
\* ASCII byte, -1 for a byte that starts no character
Utf8Need(b) ==
    IF b < 128 THEN 0
    ELSE IF b >= 194 /\ b <= 223 THEN 1
    ELSE IF b >= 224 /\ b <= 239 THEN 2
    ELSE IF b >= 240 /\ b <= 244 THEN 3
    ELSE -1

\* the range of the first continuation byte after the leading byte b, which
\* excludes overlong forms, surrogates and code points above U+10FFFF
Utf8SecondOk(b, c) ==
    /\ (b = 224 => c >= 160)
    /\ (b = 237 => c <= 159)
    /\ (b = 240 => c >= 144)
    /\ (b = 244 => c <= 143)

\* std::str::from_utf8 succeeds: every leading byte is followed by the
\* continuation bytes it asks for, and every continuation byte belongs to the
\* leading byte at most three places before it
from_utf8_ok(s) ==
    \A i \in 1..Len(s) :
        IF IsCont(s[i])
        THEN \E d \in 1..3 :
                /\ i - d >= 1
                /\ ~IsCont(s[i - d])
                /\ Utf8Need(s[i - d]) >= d
                /\ \A j \in (i - d + 1)..(i - 1) : IsCont(s[j])
        ELSE /\ Utf8Need(s[i]) >= 0
             /\ i + Utf8Need(s[i]) <= Len(s)
             /\ \A j \in (i + 1)..(i + Utf8Need(s[i])) : IsCont(s[j])
             /\ (Utf8Need(s[i]) >= 1 => Utf8SecondOk(s[i], s[i + 1]))

\* str::splitn(n, sep) collected: at most n pieces, the last one the remainder
RECURSIVE splitn(_, _, _)
splitn(s, n, sep) ==
    IF n = 0 THEN <<>>
    ELSE IF n = 1 THEN <<s>>
    ELSE LET p == Find(s, sep)
         IN  IF p = -1 THEN <<s>>
             ELSE <<Slice(s, 0, p)>> \o splitn(Slice(s, p + 1, Len(s)), n - 1, sep)

\* str::trim_start_matches(p): every leading repetition of p removed
RECURSIVE trim_start_matches(_, _)
trim_start_matches(s, p) ==
    IF p # <<>> /\ StartsWith(s, p)
    THEN trim_start_matches(Slice(s, Len(p), Len(s)), p)
    ELSE s

\* str::replace(b, "")
RemoveByte(s, b) == SelectSeq(s, LAMBDA x : x # b)

\* char::escape_debug of the characters of the keys drawn: newline, carriage
\* return, tab, backslash and double quote are escaped, every other one is
\* printable and stands for itself
EscapeDebug(b) ==
    IF b = 10 THEN <<92, 110>>
    ELSE IF b = 13 THEN <<92, 114>>
    ELSE IF b = 9 THEN <<92, 116>>
    ELSE IF b = 92 THEN <<92, 92>>
    ELSE IF b = 34 THEN <<92, 34>>
    ELSE <<b>>

RECURSIVE EscapeDebugStr(_)
EscapeDebugStr(s) ==
    IF s = <<>> THEN <<>> ELSE EscapeDebug(s[1]) \o EscapeDebugStr(Tail(s))

\* {:?} of an Option<&str> given as the pieces an iterator's next() sees:
\* None, or Some("...") with the text escaped
DebugNext(pieces) ==
    IF pieces = <<>> THEN <<78, 111, 110, 101>>
    ELSE <<83, 111, 109, 101, 40, 34>> \o EscapeDebugStr(pieces[1]) \o <<34, 41>>

\* the 6-bit value of a base64 symbol, or -1
B64Val(c) ==
    IF c >= 65 /\ c <= 90 THEN c - 65
    ELSE IF c >= 97 /\ c <= 122 THEN c - 71
    ELSE IF c >= 48 /\ c <= 57 THEN c + 4
    ELSE IF c = 43 THEN 62
    ELSE IF c = 47 THEN 63
    ELSE -1

\* base64::decode: up to two '=' end the text, the symbols before them are
\* all of the alphabet, and the bits left over after the last byte are zero
base64_decode(s) ==
    LET n    == Len(s)
        npad == IF n >= 2 /\ s[n] = 61 /\ s[n - 1] = 61 THEN 2
                ELSE IF n >= 1 /\ s[n] = 61 THEN 1 ELSE 0
        d    == n - npad
        v(q) == B64Val(s[q + 1])
        nout == (d * 6) \div 8
        last == IF d % 4 = 2 THEN v(d - 1) % 16
                ELSE IF d % 4 = 3 THEN v(d - 1) % 4 ELSE 0
        ok   == /\ \A q \in 0..(d - 1) : v(q) >= 0
                /\ d % 4 # 1
                /\ (npad > 0 => n % 4 = 0)
                /\ last = 0
        byte(j) == LET q == (8 * j) \div 6
                       r == (8 * j) % 6
                   IN  IF r = 0 THEN v(q) * 4 + v(q + 1) \div 16
                       ELSE IF r = 2 THEN (v(q) % 16) * 16 + v(q + 1) \div 4
                       ELSE (v(q) % 4) * 64 + v(q + 1)
    IN  IF ok THEN [ok |-> TRUE, bytes |-> [j \in 1..nout |-> byte(j - 1)]]
        ELSE [ok |-> FALSE, bytes |-> <<>>]

-----------------------------------------------------------------------------
(* usize arithmetic *)

\* a - b in usize when the build does not check overflow: wraps
WrapSub(a, b) == IF a >= b THEN a - b ELSE a - b + UsizeModulus

-----------------------------------------------------------------------------
(* parse *)

NoKey == [n |-> <<>>, e |-> <<>>]

ParseOk(k)       == [tag |-> "ok", fmt |-> "", arg |-> <<>>, key |-> k]
ParseErr(f, a)   == [tag |-> "err", fmt |-> f, arg |-> a, key |-> NoKey]
ParsePanic(f)    == [tag |-> "panic", fmt |-> f, arg |-> <<>>, key |-> NoKey]

HeaderErrFmt ==
    "unexpected format for RSA Public Key from MySQL (expected PKCS#8); first line: {:?}"
Base64ErrFmt == "unexpected error decoding what should be base64-encoded data"

\* the number of pieces asked of splitn for the first line
FirstLinePieces == 1

\* the error of a key without the header: the format string and its argument
HeaderError(keyText) ==
    ParseErr(HeaderErrFmt, DebugNext(splitn(keyText, FirstLinePieces, Newline)))

\* the header removed
KeyWithTrailer(keyText) == trim_start_matches(keyText, Header)

\* the base64 text: up to the first '-', or nothing when there is none
InnerKey(keyText) ==
    LET key_with_trailer == KeyWithTrailer(keyText)
        found       == Find(key_with_trailer, Dash)
        trailer_pos == IF found = -1 THEN 0 ELSE found
    IN  RemoveByte(Slice(key_with_trailer, 0, trailer_pos), Newline)

\* the two slices of the decoded body and the key made of them
KeyFromInner(inner, checks) ==
    LET len     == Len(inner)
        nStart  == WrapSub(WrapSub(len, NBytesLen), TrailerLen)
        nEnd    == WrapSub(len, TrailerLen)
        eStart  == WrapSub(len, EBytesLen)
    IN  IF checks /\ (len < NBytesLen \/ len - NBytesLen < TrailerLen)
        THEN ParsePanic("attempt to subtract with overflow")
        ELSE IF nStart > nEnd \/ nEnd > len
        THEN ParsePanic("slice index out of range")
        ELSE IF eStart > len
        THEN ParsePanic("slice index out of range")
        ELSE ParseOk([n |-> from_bytes_be(Slice(inner, nStart, nEnd)),
                      e |-> from_bytes_be(Slice(inner, eStart, len))])

parse(keyText, checks) ==
    IF ~StartsWith(keyText, Header) THEN HeaderError(keyText)
    ELSE LET inner == base64_decode(InnerKey(keyText))
         IN  IF ~inner.ok THEN ParseErr(Base64ErrFmt, <<>>)
             ELSE KeyFromInner(inner.bytes, checks)

-----------------------------------------------------------------------------
(* internals_encrypt, internals_copy_with_left_pad *)

internals_encrypt(pk, m) == modpow(m, pk.e, pk.n)

\* as internals_copy_with_left_pad with src copied to the head of dest and
\* the zeros behind it
CopyLeftAligned(dest, src, checks) ==
    IF Len(src) > Len(dest)
    THEN [tag |-> "panic", fmt |-> "slice index out of range", buf |-> dest]
    ELSE [tag |-> "ok", fmt |-> "",
          buf |-> [i \in 1..Len(dest) |-> IF i <= Len(src) THEN src[i] ELSE 0]]

\* dest after the call, or the panic of a src longer than dest: the checked
\* subtraction overflows, the wrapped one gives a slice start past the end
internals_copy_with_left_pad(dest, src, checks) ==
    LET padding_bytes == WrapSub(Len(dest), Len(src))
        zeroed == [i \in 1..Len(dest) |-> IF i <= padding_bytes THEN 0 ELSE dest[i]]
    IN  IF Len(src) > Len(dest)
        THEN [tag |-> "panic",
              fmt |-> IF checks THEN "attempt to subtract with overflow"
                      ELSE "slice index out of range",
              buf |-> dest]
        ELSE [tag |-> "ok", fmt |-> "",
              buf |-> [i \in 1..Len(dest) |->
                          IF i > padding_bytes THEN src[i - padding_bytes]
                          ELSE zeroed[i]]]

-----------------------------------------------------------------------------
(* oaep_encrypt *)

TooLongFmt == "mysql: password too long"

\* as KeyBytes without the + 7: the width rounded down
KeyBytesFloor(n) == bits(n) \div 8

\* k: size of n in bytes
KeyBytes(n) == (bits(n) + 7) \div 8

\* the test msg.len() > k - 2 * h_size - 2 in usize
LengthCheck(k, h, msgLen, checks) ==
    IF checks /\ (k < 2 * h \/ k - 2 * h < 2) THEN "panic"
    ELSE IF msgLen > WrapSub(WrapSub(k, 2 * h), 2) THEN "too_long"
    ELSE "ok"

\* em allocated, the seed filled by the random source, and DB written:
\* DB = pHash || PS || 01 || M
BuildEm(k, h, msg, seed, dg, checks) ==
    LET db_len == k - h - 1
        fin    == DigestResultReset(dg, h)
        p_hash == fin.output
        db1    == [i \in 1..db_len |-> IF i <= h THEN p_hash[i] ELSE 0]
        one    == db_len - Len(msg) - 1
        db2    == [db1 EXCEPT ![one + 1] = 1]
        from   == db_len - Len(msg)
        db3    == [i \in 1..db_len |-> IF i > from THEN msg[i - from] ELSE db2[i]]
        BuildPanic(f) == [tag |-> "panic", fmt |-> f, em |-> <<>>, digest |-> dg]
    IN  IF 1 > k \/ h > k - 1
        THEN BuildPanic("assertion failed: mid <= self.len()")
        ELSE IF h > db_len
        THEN BuildPanic("slice index out of range")
        ELSE IF one < 0
        THEN BuildPanic(IF checks THEN "attempt to subtract with overflow"
                   ELSE "index out of bounds")
        ELSE [tag |-> "ok", fmt |-> "", em |-> <<0>> \o seed \o db3,
              digest |-> fin.digest]

\* the parts of em: seed = em[1..1+h), db = em[1+h..)
EmSeed(buf, h) == Slice(buf, 1, 1 + h)
EmDb(buf, h) == Slice(buf, 1 + h, Len(buf))

-----------------------------------------------------------------------------
(* encrypt *)

Utf8ErrFmt == "unexpected error decoding what should be UTF-8"

NoResult == [tag |-> "none", at |-> "", fmt |-> "", arg |-> <<>>, value |-> <<>>]
Ok(v) == [tag |-> "ok", at |-> "encrypt", fmt |-> "", arg |-> <<>>, value |-> v]
Err(where, f, a) == [tag |-> "err", at |-> where, fmt |-> f, arg |-> a, value |-> <<>>]
Panic(where, f) == [tag |-> "panic", at |-> where, fmt |-> f, arg |-> <<>>, value |-> <<>>]

InCalls(c) == \E i \in 1..Len(calls) : calls[i] = c

\* as EncryptStart with the validation's outcome ignored: the parser is
\* invoked on any bytes
EncryptStartUnchecked ==
    /\ pc = "encrypt"
    /\ calls' = Append(calls, "from_utf8")
    /\ pc' = "parse"
    /\ UNCHANGED <<key, message, h_size, overflowChecks, pub_key, em, seed0,
                   digest, m_int, c_bytes, result, ctr, mgf>>

\* encrypt, up to the ? after from_utf8
EncryptStart ==
    /\ pc = "encrypt"
    /\ calls' = Append(calls, "from_utf8")
    /\ IF from_utf8_ok(key)
       THEN pc' = "parse" /\ UNCHANGED result
       ELSE pc' = "done" /\ result' = Err("encrypt", Utf8ErrFmt, <<>>)
    /\ UNCHANGED <<key, message, h_size, overflowChecks, pub_key, em, seed0,
                   digest, m_int, c_bytes, ctr, mgf>>

\* let key = parse(key)?
ParseKey ==
    /\ pc = "parse"
    /\ calls' = Append(calls, "parse")
    /\ LET r == parse(key, overflowChecks)
       IN  IF r.tag = "ok"
           THEN pc' = "oaep" /\ pub_key' = r.key /\ UNCHANGED result
           ELSE /\ pc' = "done"
                /\ result' = [tag |-> r.tag, at |-> "parse", fmt |-> r.fmt,
                              arg |-> r.arg, value |-> <<>>]
                /\ UNCHANGED pub_key
    /\ UNCHANGED <<key, message, h_size, overflowChecks, em, seed0, digest,
                   m_int, c_bytes, ctr, mgf>>

\* thread_rng(), the call of oaep_encrypt, and oaep_encrypt up to the length test
OaepCheck ==
    /\ pc = "oaep"
    /\ calls' = calls \o <<"thread_rng", "oaep_encrypt">>
    /\ digest' = DigestNew
    /\ LET chk == LengthCheck(KeyBytes(pub_key.n), h_size, Len(message), overflowChecks)
       IN  IF chk = "panic"
           THEN /\ pc' = "done"
                /\ result' = Panic("oaep_encrypt", "attempt to subtract with overflow")
           ELSE IF chk = "too_long"
           THEN pc' = "done" /\ result' = Err("oaep_encrypt", TooLongFmt, <<>>)
           ELSE pc' = "build" /\ UNCHANGED result
    /\ UNCHANGED <<key, message, h_size, overflowChecks, pub_key, em, seed0,
                   m_int, c_bytes, ctr, mgf>>

\* the random bytes rng.fill may write into a seed of h bytes
SeedBytesA == <<170, 253, 18, 246, 89, 202, 230, 52>>
SeedBytesB == <<0, 0, 0, 0, 0, 0, 0, 0>>
Seeds(h) == {Slice(SeedBytesA, 0, h), Slice(SeedBytesB, 0, h)}

\* let mut em = vec![0u8; k] ... db[db_len - msg.len()..].copy_from_slice(msg)
OaepBuild ==
    /\ pc = "build"
    /\ \E seed \in Seeds(h_size) :
          LET b == BuildEm(KeyBytes(pub_key.n), h_size, message, seed, digest,
                           overflowChecks)
          IN  IF b.tag = "ok"
              THEN /\ pc' = "mask_db"
                   /\ em' = b.em
                   /\ seed0' = seed
                   /\ digest' = b.digest
                   /\ calls' = Append(calls, "rng.fill")
                   /\ UNCHANGED result
              ELSE /\ pc' = "done"
                   /\ result' = Panic("oaep_encrypt", b.fmt)
                   /\ UNCHANGED <<em, seed0, digest, calls>>
    /\ UNCHANGED <<key, message, h_size, overflowChecks, pub_key, m_int, c_bytes,
                   ctr, mgf>>

\* oeap_mgf1_xor(db, &mut digest, seed)
MaskDb ==
    /\ pc = "mask_db"
    /\ LET r == oeap_mgf1_xor(EmDb(em, h_size), digest, EmSeed(em, h_size), h_size)
       IN  /\ em' = <<em[1]>> \o EmSeed(em, h_size) \o r.out
           /\ digest' = r.digest
    /\ pc' = "mask_seed"
    /\ UNCHANGED <<key, message, h_size, overflowChecks, calls, pub_key, seed0,
                   m_int, c_bytes, result, ctr, mgf>>

\* oeap_mgf1_xor(seed, &mut digest, db)
MaskSeed ==
    /\ pc = "mask_seed"
    /\ LET r == oeap_mgf1_xor(EmSeed(em, h_size), digest, EmDb(em, h_size), h_size)
       IN  /\ em' = <<em[1]>> \o r.out \o EmDb(em, h_size)
           /\ digest' = r.digest
    /\ pc' = "rsa"
    /\ UNCHANGED <<key, message, h_size, overflowChecks, calls, pub_key, seed0,
                   m_int, c_bytes, result, ctr, mgf>>

\* m = from_bytes_be(&em), c = internals_encrypt(..).to_bytes_be(), the left
\* pad, and the return of em through oaep_encrypt and encrypt
RsaEncrypt ==
    /\ pc = "rsa"
    /\ pc' = "done"
    /\ LET m == from_bytes_be(em)
       IN  /\ m_int' = m
           /\ IF pub_key.n = <<>>
              THEN /\ result' = Panic("oaep_encrypt", "attempt to divide by zero")
                   /\ UNCHANGED <<c_bytes, em>>
              ELSE LET c   == to_bytes_be(internals_encrypt(pub_key, m))
                       pad == internals_copy_with_left_pad(em, c, overflowChecks)
                   IN  /\ c_bytes' = c
                       /\ em' = pad.buf
                       /\ result' = IF pad.tag = "ok" THEN Ok(pad.buf)
                                    ELSE Panic("oaep_encrypt", pad.fmt)
    /\ UNCHANGED <<key, message, h_size, overflowChecks, calls, pub_key, seed0,
                   digest, ctr, mgf>>

-----------------------------------------------------------------------------
(* The keys, messages and digests drawn *)

\* the symbol of a 6-bit value
B64Sym(v) ==
    IF v < 26 THEN v + 65
    ELSE IF v < 52 THEN v + 71
    ELSE IF v < 62 THEN v - 4
    ELSE IF v = 62 THEN 43
    ELSE 47

\* the padded base64 text of a byte sequence
B64Encode(b) ==
    LET n     == Len(b)
        at(j) == IF j < n THEN b[j + 1] ELSE 0
        sym(q) ==
            LET g  == q \div 4
                b0 == at(3 * g)
                b1 == at(3 * g + 1)
                b2 == at(3 * g + 2)
                r  == q % 4
            IN  IF r = 0 THEN B64Sym(b0 \div 4)
                ELSE IF r = 1 THEN B64Sym((b0 % 4) * 16 + b1 \div 16)
                ELSE IF r = 2
                THEN IF 3 * g + 1 >= n THEN 61 ELSE B64Sym((b1 % 16) * 4 + b2 \div 64)
                ELSE IF 3 * g + 2 >= n THEN 61 ELSE B64Sym(b2 % 64)
    IN  [q \in 1..(4 * ((n + 2) \div 3)) |-> sym(q - 1)]

\* a text in lines of 64 characters, each ended by a newline
WrapLines(t) ==
    LET n == Len(t)
    IN  [p \in 1..(n + (n + 63) \div 64) |->
            IF (p - 1) % 65 = 64 \/ p = n + (n + 63) \div 64 THEN Newline
            ELSE t[((p - 1) \div 65) * 64 + ((p - 1) % 65) + 1]]

\* the DER bytes before the modulus of a 2048-bit SubjectPublicKeyInfo
SpkiPrefix == <<48, 130, 1, 34, 48, 13, 6, 9, 42, 134, 72, 134, 247, 13, 1, 1, 1,
                5, 0, 3, 130, 1, 15, 0, 48, 130, 1, 10, 2, 130, 1, 1>>

\* the DER body MySQL sends: the modulus in 257 bytes, 02 03, the exponent in 3
SpkiBody(n, e) ==
    SpkiPrefix \o PadLeft(n, NBytesLen) \o <<2, 3>> \o PadLeft(e, EBytesLen)

Footer == <<45, 45, 45, 45, 45, 69, 78, 68, 32, 80, 85, 66, 76, 73, 67, 32, 75,
            69, 89, 45, 45, 45, 45, 45, 10>>
\* "-x": a footer that is not the END line
OtherFooter == <<45, 120>>

PemKey(body, footer) == Header \o WrapLines(B64Encode(body)) \o footer

\* moduli of 24, 33, 39, 48 and 56 bits, and the exponents 3, 17 and 65537
N24 == <<203, 1, 7>>
N33 == <<1, 0, 0, 0, 15>>
N39 == <<101, 58, 113, 155, 13>>
N48 == <<200, 17, 34, 51, 68, 85>>
N56 == <<151, 6, 201, 77, 30, 92, 11>>
E3 == <<3>>
E17 == <<17>>
E65537 == <<1, 0, 1>>

GoodKeys ==
    { PemKey(SpkiBody(N24, E3), Footer),
      PemKey(SpkiBody(N33, E65537), Footer),
      PemKey(SpkiBody(N39, E17), Footer),
      PemKey(SpkiBody(N48, E3), Footer),
      PemKey(SpkiBody(N56, E3), Footer),
      PemKey(SpkiBody(N33, <<>>), Footer),
      PemKey(SpkiBody(N39, E17), OtherFooter),
      Header \o PemKey(SpkiBody(N39, E3), Footer) }

\* keys with the header and a body parse cannot use: three decoded bytes, no
\* '-' after the body, symbols outside the alphabet, and the header alone
BadBodyKeys ==
    { PemKey(<<1, 2, 3>>, Footer),
      Header \o WrapLines(B64Encode(SpkiBody(N33, E3))),
      Header \o <<33, 33, 33, 33, 10>> \o Footer,
      Header }

\* texts without the header: "ssh-rsa AAAA\nkey\n", the header without its
\* newline, "\u{e9}\nx", and the empty text
NoHeaderKeys ==
    { <<115, 115, 104, 45, 114, 115, 97, 32, 65, 65, 65, 65, 10, 107, 101, 121, 10>>,
      Slice(Header, 0, Len(Header) - 1),
      <<195, 169, 10, 120>>,
      <<>> }

\* byte sequences that are not UTF-8, one of them after the header
NotUtf8Keys ==
    { <<255, 254, 10>>,
      Header \o <<192, 128>> \o Footer,
      <<226, 130>> }

Keys == GoodKeys \cup BadBodyKeys \cup NoHeaderKeys \cup NotUtf8Keys

MessageBytes == <<112, 119, 100, 0, 255, 49, 50, 51>>
Messages == {Slice(MessageBytes, 0, l) : l \in 0..MaxMsgLen}

DigestSizes == 1..MaxDigestSize

-----------------------------------------------------------------------------
(* encrypt, from its call to its return *)

NoCtr == [input |-> <<>>, output |-> <<>>, done |-> FALSE]
NoMgf == [out0 |-> <<>>, seed |-> <<>>, h |-> 0, pc |-> "idle",
          st |-> Mgf1Start(<<>>, DigestNew)]

Init ==
    /\ key \in Keys
    /\ message \in Messages
    /\ h_size \in DigestSizes
    /\ overflowChecks \in BOOLEAN
    /\ pc = "encrypt"
    /\ calls = <<>>
    /\ pub_key = NoKey
    /\ em = <<>>
    /\ seed0 = <<>>
    /\ digest = DigestNew
    /\ m_int = <<>>
    /\ c_bytes = <<>>
    /\ result = NoResult
    /\ ctr = NoCtr
    /\ mgf = NoMgf

Next ==
    \/ EncryptStart
    \/ ParseKey
    \/ OaepCheck
    \/ OaepBuild
    \/ MaskDb
    \/ MaskSeed
    \/ RsaEncrypt

Spec == Init /\ [][Next]_vars

-----------------------------------------------------------------------------
(* internals_inc_counter on its own: one increment of a drawn counter *)

CounterBytes == {0, 1, 254, 255}

InitCounter ==
    /\ ctr \in {[input |-> c, output |-> c, done |-> FALSE] :
                    c \in [1..CounterLen -> CounterBytes]}
    /\ key = <<>>
    /\ message = <<>>
    /\ h_size = 1
    /\ overflowChecks = TRUE
    /\ pc = "idle"
    /\ calls = <<>>
    /\ pub_key = NoKey
    /\ em = <<>>
    /\ seed0 = <<>>
    /\ digest = DigestNew
    /\ m_int = <<>>
    /\ c_bytes = <<>>
    /\ result = NoResult
    /\ mgf = NoMgf

CounterStep ==
    /\ ~ctr.done
    /\ ctr' = [ctr EXCEPT !.output = internals_inc_counter(ctr.input), !.done = TRUE]
    /\ UNCHANGED <<key, message, h_size, overflowChecks, pc, calls, pub_key, em,
                   seed0, digest, m_int, c_bytes, result, mgf>>

NextCounter == CounterStep

SpecCounter == InitCounter /\ [][NextCounter]_vars

-----------------------------------------------------------------------------
(* oeap_mgf1_xor on its own: the while loop, one iteration at a time *)

MgfBufferA == <<1, 2, 3, 4, 5, 6, 7, 8>>
MgfBufferB == <<255, 0, 128, 64, 200, 17, 90, 3>>
MgfBuffers == {Slice(b, 0, l) : b \in {MgfBufferA, MgfBufferB}, l \in 0..MaxMgfLen}
MgfSeeds == {<<>>, <<7>>, <<170, 253>>}

InitMgf ==
    /\ \E out \in MgfBuffers, seed \in MgfSeeds, h \in DigestSizes :
          mgf = [out0 |-> out, seed |-> seed, h |-> h, pc |-> "loop",
                 st |-> Mgf1Start(out, DigestNew)]
    /\ ctr = NoCtr
    /\ key = <<>>
    /\ message = <<>>
    /\ h_size = 1
    /\ overflowChecks = TRUE
    /\ pc = "idle"
    /\ calls = <<>>
    /\ pub_key = NoKey
    /\ em = <<>>
    /\ seed0 = <<>>
    /\ digest = DigestNew
    /\ m_int = <<>>
    /\ c_bytes = <<>>
    /\ result = NoResult

\* while i < out.len() { ... }
MgfIterate ==
    /\ mgf.pc = "loop"
    /\ mgf.st.i < Len(mgf.st.out)
    /\ mgf' = [mgf EXCEPT !.st = Mgf1Iteration(mgf.st, mgf.seed, mgf.h)]
    /\ UNCHANGED <<key, message, h_size, overflowChecks, pc, calls, pub_key, em,
                   seed0, digest, m_int, c_bytes, result, ctr>>

\* the loop condition fails and the function returns
MgfReturn ==
    /\ mgf.pc = "loop"
    /\ ~(mgf.st.i < Len(mgf.st.out))
    /\ mgf' = [mgf EXCEPT !.pc = "done"]
    /\ UNCHANGED <<key, message, h_size, overflowChecks, pc, calls, pub_key, em,
                   seed0, digest, m_int, c_bytes, result, ctr>>

NextMgf == MgfIterate \/ MgfReturn

SpecMgf == InitMgf /\ [][NextMgf]_vars

-----------------------------------------------------------------------------
(* The statements checked *)

\* the width of the modulus in bytes, ceil(bit_length(n) / 8): the length of
\* its big-endian bytes without leading zeros
ModulusWidth(n) == Len(StripZeros(n))

OaepCalled == InCalls("oaep_encrypt")
Exponentiated == c_bytes # <<>>

\* C1: whenever oaep_encrypt succeeds, the bytes returned have length exactly
\* k = ceil(bit_length(n) / 8): the serialized EM^e mod n in the tail,
\* unchanged, and a zero byte on the left for each leading zero byte the
\* serialization dropped.
C1_OutputWidth ==
    result.tag = "ok" =>
        /\ Len(result.value) = ModulusWidth(pub_key.n)
        /\ Len(c_bytes) <= ModulusWidth(pub_key.n)
        /\ result.value = Zeros(ModulusWidth(pub_key.n) - Len(c_bytes)) \o c_bytes

\* a success whose serialized result was shorter than k by two bytes or more
C1_Witness ==
    /\ result.tag = "ok"
    /\ Len(c_bytes) + 2 <= ModulusWidth(pub_key.n)

\* C2: oaep_encrypt returns the "password too long" error exactly when
\* message.len() > k - 2h - 2 as integers, before em is allocated, and
\* succeeds for every other message.
C2_LengthBound ==
    (OaepCalled /\ pc = "done") =>
        IF Len(message) > ModulusWidth(pub_key.n) - 2 * h_size - 2
        THEN result = Err("oaep_encrypt", TooLongFmt, <<>>) /\ em = <<>>
        ELSE result.tag = "ok"

\* the text up to, not including, the first newline
FirstLine(t) == IF Find(t, Newline) = -1 THEN t ELSE Slice(t, 0, Find(t, Newline))

\* C3: for a key text that does not start with the header line, parse returns
\* the format error whose message shows the first line of the text, not the
\* whole text.
C3_FirstLineReported ==
    (pc = "done" /\ from_utf8_ok(key) /\ ~StartsWith(key, Header)) =>
        result = Err("parse", HeaderErrFmt, DebugNext(<<FirstLine(key)>>))

\* C4: for a key text that starts with the header, parse ends with a
\* PublicKey or a typed format error and never indexes outside the decoded
\* body; a body that decodes to fewer than 262 bytes gives a format error.
C4_ParseFailsClosed ==
    (InCalls("parse") /\ StartsWith(key, Header)) =>
        /\ ~(result.tag = "panic" /\ result.at = "parse")
        /\ (/\ base64_decode(InnerKey(key)).ok
            /\ Len(base64_decode(InnerKey(key)).bytes) < NBytesLen + TrailerLen)
           => (result.tag = "err" /\ result.at = "parse")

\* the text between the one leading header line and the next '-', newlines
\* removed
BodyAfterOneHeader(t) ==
    LET rest == Slice(t, Len(Header), Len(t))
        dash == Find(rest, Dash)
    IN  RemoveByte(Slice(rest, 0, IF dash = -1 THEN 0 ELSE dash), Newline)

\* C5: for a key text parse accepts, the base64 body is the text between the
\* single leading header line and the next '-' with the newlines removed, the
\* modulus is the big-endian value of its decoded bytes [len-262, len-5), and
\* the exponent that of its last 3 decoded bytes.
C5_BodyAndOffsets ==
    OaepCalled =>
        LET dec == base64_decode(BodyAfterOneHeader(key))
            len == Len(dec.bytes)
        IN  /\ dec.ok
            /\ len >= NBytesLen + TrailerLen
            /\ pub_key.n = from_bytes_be(Slice(dec.bytes, len - NBytesLen - TrailerLen,
                                               len - TrailerLen))
            /\ pub_key.e = from_bytes_be(Slice(dec.bytes, len - EBytesLen, len))

\* C6: for key bytes that are not UTF-8, encrypt returns the one fixed error
\* whatever the bytes are, and nothing but the UTF-8 validation has run; the
\* parser runs only after the validation succeeded, and the random source and
\* the encoder only after the parser returned a key.
C6_Utf8First ==
    /\ (pc = "done" /\ ~from_utf8_ok(key)) =>
          /\ result = Err("encrypt", Utf8ErrFmt, <<>>)
          /\ calls = <<"from_utf8">>
    /\ InCalls("parse") =>
          /\ from_utf8_ok(key)
          /\ calls[1] = "from_utf8" /\ calls[2] = "parse"
    /\ (InCalls("thread_rng") \/ InCalls("oaep_encrypt") \/ InCalls("rng.fill")) =>
          /\ Len(calls) >= 4
          /\ calls[2] = "parse" /\ calls[3] = "thread_rng" /\ calls[4] = "oaep_encrypt"
          /\ parse(key, overflowChecks) = ParseOk(pub_key)

\* encrypt has returned for key bytes that are not UTF-8 and start with the header
C6_Witness ==
    /\ pc = "done"
    /\ ~from_utf8_ok(key)
    /\ StartsWith(key, Header)

\* the counter as two 16-bit halves of its big-endian value
CounterHigh(c) == c[1] * 256 + c[2]
CounterLow(c) == c[3] * 256 + c[4]

\* C7: internals_inc_counter replaces the big-endian 32-bit value of the
\* counter by (value + 1) mod 2^32: the low half is incremented mod 2^16 and
\* its carry goes to the high half mod 2^16; FF FF FF FF becomes 00 00 00 00
\* and 00 00 00 FF becomes 00 00 01 00.
C7_CounterIncrement ==
    ctr.done =>
        /\ Len(ctr.output) = CounterLen
        /\ \A i \in 1..CounterLen : ctr.output[i] \in Byte
        /\ CounterLow(ctr.output) = (CounterLow(ctr.input) + 1) % 65536
        /\ CounterHigh(ctr.output) =
              (CounterHigh(ctr.input) + (CounterLow(ctr.input) + 1) \div 65536) % 65536
        /\ (ctr.input = <<255, 255, 255, 255>> => ctr.output = <<0, 0, 0, 0>>)
        /\ (ctr.input = <<0, 0, 0, 255>> => ctr.output = <<0, 0, 1, 0>>)

\* the counter FF FF FF FF has been incremented
C7_Witness == ctr.done /\ ctr.input = <<255, 255, 255, 255>>

\* the 4 big-endian bytes of v
BE32(v) == <<(v \div 16777216) % 256, (v \div 65536) % 256, (v \div 256) % 256, v % 256>>

\* byte p (from 0) of the MGF1 mask: Hash(seed || BE32(p div h))[p mod h]
MgfMaskByte(seed, h, p) == Hash(h, seed \o BE32(p \div h))[(p % h) + 1]

\* C8: oeap_mgf1_xor ends after ceil(L / h) iterations with out[p] =
\* old_out[p] XOR Hash(seed || BE32(p div h))[p mod h] for every p < L.  After
\* each iteration the bytes before the cursor are XORed once and those after
\* it untouched, the counter holds the number of iterations made, and the
\* digest is reset.
C8_Mgf1Xor ==
    mgf.pc # "idle" =>
        LET st == mgf.st
            L  == Len(mgf.out0)
        IN  /\ Len(st.out) = L
            /\ st.i = Min(mgf.h * st.iters, L)
            /\ st.counter = BE32(st.iters)
            /\ st.digest = DigestNew
            /\ \A p \in 0..(L - 1) :
                  st.out[p + 1] =
                      IF p < st.i
                      THEN BitXor(mgf.out0[p + 1], MgfMaskByte(mgf.seed, mgf.h, p))
                      ELSE mgf.out0[p + 1]
            /\ mgf.pc = "done" =>
                  (st.i = L /\ st.iters = (L + mgf.h - 1) \div mgf.h)

\* the loop has returned after three iterations or more, the last one partial
C8_Witness ==
    /\ mgf.pc = "done"
    /\ mgf.st.iters >= 3
    /\ Len(mgf.out0) % mgf.h # 0

\* the first n bytes of the MGF1 mask of a seed
MgfMask(seed, h, n) == [p \in 1..n |-> MgfMaskByte(seed, h, p - 1)]

XorSeq(a, b) == [i \in 1..Len(a) |-> BitXor(a[i], b[i])]

\* DB = Hash(empty) || zero bytes || 01 || msg, of k - h - 1 bytes
ClaimedDb(k, h, msg) ==
    Hash(h, <<>>) \o Zeros((k - h - 1) - Len(msg) - 1 - h) \o <<1>> \o msg

\* C9: for an accepted message, the block handed to the exponentiation is
\* 00 || maskedSeed || maskedDB, with maskedDB = DB XOR MGF1(seed) made from
\* the random seed and maskedSeed = seed XOR MGF1(maskedDB) made from the
\* masked DB; byte 0 of em is zero as long as em is the block.
C9_EncodedBlock ==
    /\ pc \in {"mask_db", "mask_seed", "rsa"} => em[1] = 0
    /\ pc = "rsa" =>
          LET k        == ModulusWidth(pub_key.n)
              db       == ClaimedDb(k, h_size, message)
              maskedDb == XorSeq(db, MgfMask(seed0, h_size, Len(db)))
              maskedSeed == XorSeq(seed0, MgfMask(maskedDb, h_size, h_size))
          IN  em = <<0>> \o maskedSeed \o maskedDb

\* C10: for a modulus n > 0 and an accepted message the integer read from em
\* is less than n, the serialized EM^e mod n has at most k bytes, and the
\* subtraction of the left pad does not underflow.
C10_BlockBelowModulus ==
    /\ pc = "rsa" =>
          /\ pub_key.n # <<>>
          /\ BigCmp(from_bytes_be(em), pub_key.n) < 0
    /\ Exponentiated =>
          /\ BigCmp(m_int, pub_key.n) < 0
          /\ Len(c_bytes) <= ModulusWidth(pub_key.n)
          /\ result.tag = "ok"

\* the exponentiation has run on a block that fills every byte after the
\* zero byte, under a modulus whose top byte is partly used
C10_Witness ==
    /\ Exponentiated
    /\ bits(pub_key.n) % 8 # 0
    /\ Len(m_int) = ModulusWidth(pub_key.n) - 1

=============================================================================
